---- MODULE Spec2Model ----
(***************************************************************************)
(* VaultMigrate: the import run of the Notion -> Obsidian migration.       *)
(*                                                                         *)
(* The model follows the JavaScript event loop.  A handler runs            *)
(* synchronously until it suspends at an I/O await; `active` names the run *)
(* that holds the thread (0: the loop is idle).  Clicks, I/O returns and   *)
(* write callbacks are macrotasks and need active = 0.  fs.writeFile works *)
(* in the thread pool, so a file may appear on disk at any moment.         *)
(***************************************************************************)
EXTENDS Integers, Sequences, FiniteSets, TLC

\* ------------------------------------------------------------- bounds
MaxRuns == 2          \* Start clicks in one behaviour
MaxRecords == 2       \* records the upstream query returns
MaxCounter == 3       \* largest " (n)" suffix in the directories of NamingSpec
MaxTitleLen == 200    \* sanitizeTitle: substring(0, 200)

Runs == 1..MaxRuns
Titles == {"Alpha"}

\* ------------------------------------------------------------- file names
\* A file name without directory and extension: the sanitized title, the page
\* id appended by attachPageId (0: none), and the " (n)" suffixes in order.
NoName == [t |-> "", id |-> 0, s |-> <<>>]
MkName(t, id) == [t |-> t, id |-> id, s |-> <<>>]
WithCounter(name, c) == [name EXCEPT !.s = Append(@, c)]

\* while (fs.existsSync(`${folderPath}/${uniqueTitle}.md`)) { ... }
RECURSIVE generateUniqueTitleLoop(_, _, _, _)
generateUniqueTitleLoop(title, uniqueTitle, counter, dir) ==
    IF uniqueTitle \in dir
    THEN generateUniqueTitleLoop(title, WithCounter(title, counter), counter + 1, dir)
    ELSE uniqueTitle

\* an `if` in place of the `while`: the counter is tried once
suffixOnce(title, dir) == IF title \in dir THEN WithCounter(title, 1) ELSE title

generateUniqueTitle(title, dir) == generateUniqueTitleLoop(title, title, 1, dir)

\* while (fs.existsSync(uniqueFileName)) { ... } of writeFilePromise
RECURSIVE uniqueFileNameLoop(_, _, _, _)
uniqueFileNameLoop(fileName, uniqueName, counter, dir) ==
    IF uniqueName \in dir
    THEN uniqueFileNameLoop(fileName, WithCounter(fileName, counter), counter + 1, dir)
    ELSE uniqueName

uniqueFileName(fileName, dir) == uniqueFileNameLoop(fileName, fileName, 1, dir)

\* ------------------------------------------------------------- sanitizeTitle
Lower == {"a","b","c","d","e","f","g","h","i","j","k","l","m",
          "n","o","p","q","r","s","t","u","v","w","x","y","z"}
Upper == {"A","B","C","D","E","F","G","H","I","J","K","L","M",
          "N","O","P","Q","R","S","T","U","V","W","X","Y","Z"}
Digit == {"0","1","2","3","4","5","6","7","8","9"}

\* the complement of the class [^a-zA-Z0-9- ]
KeptChar(c) == c \in Lower \cup Upper \cup Digit \cup {"-", " "}

\* .replace(/[^a-zA-Z0-9- ]/g, "")
StripSpecial(str) == SelectSeq(str, KeptChar)

\* .substring(0, n)
Substring0(str, n) == SubSeq(str, 1, IF Len(str) < n THEN Len(str) ELSE n)

\* the two calls in the other order
truncateThenStrip(str) == StripSpecial(Substring0(str, MaxTitleLen))

\* title.replace(/[^a-zA-Z0-9- ]/g, "").substring(0, 200)
sanitizeTitle(str) == Substring0(StripSpecial(str), MaxTitleLen)

\* ------------------------------------------------------------- state
VARIABLES
    importControl,   \* plugin.importControl: [isImporting, forceStop]
    settings,        \* plugin.settings: attachPageId, importPageContent, isImporting
    startDisabled,   \* startButton.disabled of the rendering on screen
    stopDisabled,    \* stopButton.disabled of the rendering on screen
    attached,        \* attached[r]: run r's handler holds the buttons on screen
    active,          \* the run executing synchronously, 0 when the loop is idle
    pc,              \* pc[r]: where run r's Start handler stands
    npages,          \* npages[r]: allPages.length of run r
    idx,             \* idx[r]: records of allPages run r has begun
    title,           \* title[r]: `title` of the record run r is processing
    outcome,         \* outcome[r]: how run r's handler ended
    hist,            \* hist[r]: what run r has met and done so far (see NoHist)
    stoppedMid,      \* runs that were inside createMarkdownFiles when forceStop flipped
    owed,            \* paths of their writes that were pending at that moment
    wst,             \* wst[r][i]: state of the document write of run r, record i
    wpath,           \* wpath[r][i]: uniqueFileName chosen by that write
    orphans,         \* paths of writes still in the thread pool after their handler ended
    files,           \* names of the .md files in the migration folder
    quota,           \* records the upstream may still return (bound of the model)
    fcase,           \* NamingSpec: the call under test
    fout,            \* NamingSpec: its result
    xstack,          \* ExtractSpec: the calls of extractContentFromPage and
                     \* fetchBlockContent in progress, the innermost last
    xres,            \* ExtractSpec: how the record's extractContentFromPage ended
    xwrites,         \* ExtractSpec: the subpage writes issued, in order
    xdoc,            \* ExtractSpec: the record's document as createMarkdownFiles enqueues it
    xsub,            \* ExtractSpec: the importSubpages setting of the run
    mprops,          \* MapSpec: page.properties of the record as far as the loop
                     \* has read them, in order
    mflags,          \* MapSpec: createSemanticLinking (sem), createRelationContentPage (rel)
    mi,              \* MapSpec: the property the loop stands at
    mj,              \* MapSpec: the entry of that property whose request is awaited
    mph,             \* MapSpec: where the record's processing stands
    mcontent,        \* MapSpec: `content`, as a sequence of lines and fragments
    msemlinks,       \* MapSpec: relationSemanticLinks
    mrellinks,       \* MapSpec: relationLinks
    mlog,            \* MapSpec: the requests made for the record, with their outcome
    mdoc,            \* MapSpec: the record's document as enqueued
    apageTitle,      \* AliasSpec: `pageTitle` of createMarkdownFiles
    arec,            \* AliasSpec: records of allPages begun
    atitle,          \* AliasSpec: the title property of the record in progress
    aph,             \* AliasSpec: where the records loop stands
    apassed,         \* AliasSpec: per record, the pageTitle given to extractContentFromPage
    totalItems,      \* TrackerSpec: ImportTracker.totalItems
    processedItems,  \* TrackerSpec: ImportTracker.processedItems
    itemsByType,     \* TrackerSpec: ImportTracker.itemsByType
    itemsMap,        \* TrackerSpec: ImportTracker.itemsMap, id -> item or NoItem
    digests,         \* TrackerSpec: digest lines logged so far
    call             \* TrackerSpec: the last call made of the tracker, with its arguments

ctlVars == <<importControl, settings>>
uiVars == <<startDisabled, stopDisabled, attached>>
runVars == <<active, pc, npages, idx, title, outcome, hist, stoppedMid, owed, quota>>
fsVars == <<wst, wpath, orphans, files>>
xVars == <<xstack, xres, xwrites, xdoc, xsub>>
mVars == <<mprops, mflags, mi, mj, mph, mcontent, msemlinks, mrellinks, mlog, mdoc>>
aVars == <<apageTitle, arec, atitle, aph, apassed>>
tVars == <<totalItems, processedItems, itemsByType, itemsMap, digests, call>>
pureVars == <<fcase, fout, xVars, mVars, aVars, tVars>>
vars == <<ctlVars, uiVars, runVars, fsVars, pureVars>>

Recs == 1..MaxRecords
NoCase == [op |-> "none"]
NoOut == <<"none">>
\* missing: the folder was absent at the click; marked: the handler set an
\* isImporting flag to true; fetched: it issued an upstream request; auto: it
\* logged "Migration completed automatically!" and flipped isImporting to false
NoHist == [missing |-> FALSE, marked |-> FALSE, fetched |-> FALSE, auto |-> FALSE]

\* pc values at which a run is suspended inside createMarkdownFiles
Suspended == {"dl", "rel", "extract", "await"}
\* pc values at which a run executes createMarkdownFiles synchronously
Running == {"loop", "write", "after"}
InCreateMarkdownFiles == Suspended \cup Running

\* main.ts: importControl = {isImporting: false, forceStop: false}; DEFAULT_SETTINGS
\* isImporting: false; display() on these settings enables Start and disables Stop.
\* importPageContent stays at its default, true: switched off, a record only
\* lacks the suspension at extractContentFromPage, as it does under forceStop.
MainInit ==
    /\ importControl = [isImporting |-> FALSE, forceStop |-> FALSE]
    /\ settings \in [attachPageId : BOOLEAN, importPageContent : {TRUE},
                     isImporting : {FALSE}]
    /\ startDisabled = FALSE
    /\ stopDisabled = TRUE
    /\ attached = [r \in Runs |-> FALSE]
    /\ active = 0
    /\ pc = [r \in Runs |-> "idle"]
    /\ npages = [r \in Runs |-> 0]
    /\ idx = [r \in Runs |-> 0]
    /\ title = [r \in Runs |-> NoName]
    /\ outcome = [r \in Runs |-> "none"]
    /\ hist = [r \in Runs |-> NoHist]
    /\ stoppedMid = {}
    /\ owed = {}
    /\ wst = [r \in Runs |-> [i \in Recs |-> "none"]]
    /\ wpath = [r \in Runs |-> [i \in Recs |-> NoName]]
    /\ orphans = {}
    /\ files = {}
    /\ quota = MaxRecords

\* no extractContentFromPage is in progress
NoRes == [st |-> "none", content |-> <<>>]
NoDoc == [st |-> "none", body |-> <<>>]
XIdle ==
    /\ xstack = <<>>
    /\ xres = NoRes
    /\ xwrites = <<>>
    /\ xdoc = NoDoc
    /\ xsub = TRUE

\* no record's properties are being mapped
MIdle ==
    /\ mprops = <<>>
    /\ mflags = [sem |-> FALSE, rel |-> FALSE]
    /\ mi = 0
    /\ mj = 0
    /\ mph = "idle"
    /\ mcontent = <<>>
    /\ msemlinks = <<>>
    /\ mrellinks = <<>>
    /\ mlog = <<>>
    /\ mdoc = NoDoc

\* createMarkdownFiles is not in its records loop
NoTitle == [text |-> <<>>, en |-> "absent"]
AIdle ==
    /\ apageTitle = <<>>
    /\ arec = 0
    /\ atitle = NoTitle
    /\ aph = "idle"
    /\ apassed = <<>>

\* an ImportTracker as constructed
MaxIds == 2           \* ids of tracked items
Ids == 1..MaxIds
NoItem == [status |-> "none", type |-> "none"]
NoCounts == [total |-> 0, completed |-> 0, failed |-> 0]
NoCall == [op |-> "none", id |-> 0, success |-> FALSE]
TConstructed ==
    /\ totalItems = 0
    /\ processedItems = 0
    /\ itemsByType = [attachments |-> NoCounts, subpages |-> NoCounts]
    /\ itemsMap = [id \in Ids |-> NoItem]
    /\ digests = 0
    /\ call = NoCall

Init == MainInit /\ fcase = NoCase /\ fout = NoOut /\ XIdle /\ MIdle /\ AIdle /\ TConstructed

\* ------------------------------------------------------------- the Start handler
\* a teardown that leaves importControl as it finds it
FlagsKept(ic) == ic

\* what finally writes to importControl
FinallyFlags(ic) == [ic EXCEPT !.isImporting = FALSE]

\* finally { ... } up to `await this.plugin.saveSettings()`; att: the handler's
\* buttons are the ones on screen
Finally(r, att) ==
    /\ startDisabled' = IF att THEN FALSE ELSE startDisabled
    /\ stopDisabled' = IF att THEN TRUE ELSE stopDisabled
    /\ attached' = [attached EXCEPT ![r] = FALSE]
    /\ settings' = [settings EXCEPT !.isImporting = FALSE]
    /\ importControl' = FinallyFlags(importControl)
    /\ pc' = [pc EXCEPT ![r] = "finalSave"]
    /\ active' = r

\* the status the handler logs after createMarkdownFiles returned
Report(isImporting, forceStop) ==
    IF isImporting THEN "completed"
    ELSE IF forceStop THEN "stopped" ELSE "issues"

\* createMarkdownFiles returned normally: report, then finally
ReturnToHandler(r, isImporting) ==
    /\ outcome' = [outcome EXCEPT ![r] = Report(isImporting, importControl.forceStop)]
    /\ Finally(r, attached[r])

\* an exception reached catch (error): log, then finally
Throw(r) ==
    /\ outcome' = [outcome EXCEPT ![r] = "failed"]
    /\ Finally(r, attached[r])

\* a handler that goes on without looking at the folder
NoFolderCheck(folderExists) == TRUE

\* the folder check of the Start handler: does the run go on?
FolderCheckPasses(folderExists) == folderExists

\* click on Start, up to the first await
ClickStart(r, folderExists) ==
    /\ active = 0
    /\ ~startDisabled
    /\ pc[r] = "idle"
    /\ \A q \in Runs : q < r => pc[q] # "idle"
    /\ IF FolderCheckPasses(folderExists)
       THEN /\ settings' = [settings EXCEPT !.isImporting = TRUE]
            /\ hist' = [hist EXCEPT ![r].missing = ~folderExists, ![r].marked = TRUE]
            /\ pc' = [pc EXCEPT ![r] = "save"]
            /\ attached' = [attached EXCEPT ![r] = TRUE]
            /\ UNCHANGED <<importControl, startDisabled, stopDisabled, active, outcome>>
       ELSE /\ outcome' = [outcome EXCEPT ![r] = "aborted"]
            /\ hist' = [hist EXCEPT ![r].missing = ~folderExists]
            /\ Finally(r, TRUE)
    /\ UNCHANGED <<npages, idx, title, stoppedMid, owed, quota, fsVars, pureVars>>

\* what the Start handler writes to importControl after the first saveSettings
StartFlags(ic) == [ic EXCEPT !.isImporting = TRUE]

\* `await this.plugin.saveSettings()` returns; on to `await getDatabaseName(...)`
SaveReturn(r, ok) ==
    /\ active = 0
    /\ pc[r] = "save"
    /\ IF ok
       THEN /\ importControl' = StartFlags(importControl)
            /\ stopDisabled' = IF attached[r] THEN FALSE ELSE stopDisabled
            /\ startDisabled' = IF attached[r] THEN TRUE ELSE startDisabled
            /\ hist' = [hist EXCEPT ![r].fetched = TRUE]
            /\ pc' = [pc EXCEPT ![r] = "dbname"]
            /\ UNCHANGED <<settings, attached, active, outcome>>
       ELSE /\ Throw(r)
            /\ UNCHANGED hist
    /\ UNCHANGED <<npages, idx, title, stoppedMid, owed, quota, fsVars, pureVars>>

\* getDatabaseName returns a name or null (it catches its own errors)
DbNameReturn(r) ==
    /\ active = 0
    /\ pc[r] = "dbname"
    /\ pc' = [pc EXCEPT ![r] = "fetch"]
    /\ UNCHANGED <<ctlVars, uiVars, active, npages, idx, title, outcome, hist,
                   stoppedMid, owed, quota, fsVars, pureVars>>

\* fetchNotionData returns n records or throws; createMarkdownFiles is entered
FetchReturn(r, ok, n) ==
    /\ active = 0
    /\ pc[r] = "fetch"
    /\ IF ~ok
       THEN Throw(r) /\ UNCHANGED <<npages, quota>>
       ELSE IF ~importControl.isImporting
            THEN ReturnToHandler(r, importControl.isImporting) /\ UNCHANGED <<npages, quota>>
            ELSE /\ n <= quota
                 /\ npages' = [npages EXCEPT ![r] = n]
                 /\ quota' = quota - n
                 /\ pc' = [pc EXCEPT ![r] = "loop"]
                 /\ active' = r
                 /\ UNCHANGED <<ctlVars, uiVars, outcome>>
    /\ UNCHANGED <<idx, title, hist, stoppedMid, owed, fsVars, pureVars>>

\* ------------------------------------------------------------- createMarkdownFiles
\* `title` of a record: page-id suffix, or generateUniqueTitle on the folder
ResolveTitle(t, pageId, dir) ==
    IF settings.attachPageId THEN MkName(t, pageId)
    ELSE generateUniqueTitle(MkName(t, 0), dir)

\* does the loop go on to the next record? (for ... of allPages; if (!isImporting) break)
LoopContinues(r) == idx[r] < npages[r] /\ importControl.isImporting

\* after the properties: extractContentFromPage suspends at its first request unless
\* content import is off or forceStop makes it return "" at once
GoesToExtract == settings.importPageContent /\ ~importControl.forceStop

AfterMapping(r) ==
    IF GoesToExtract
    THEN pc' = [pc EXCEPT ![r] = "extract"] /\ active' = 0
    ELSE pc' = [pc EXCEPT ![r] = "write"] /\ active' = r

\* top of the records loop: leave it, or begin the next record (title, first
\* properties) up to its first I/O await.  kind: the record's first property that
\* awaits ("relation": a page lookup, "files": a download), or "none".
LoopStep(r, t, kind) ==
    /\ active = r
    /\ pc[r] = "loop"
    /\ IF ~LoopContinues(r)
       THEN /\ pc' = [pc EXCEPT ![r] = "after"]
            /\ UNCHANGED <<active, idx, title>>
       ELSE /\ idx' = [idx EXCEPT ![r] = @ + 1]
            /\ title' = [title EXCEPT ![r] = ResolveTitle(t, idx[r] + 1, files)]
            /\ CASE kind = "relation" -> pc' = [pc EXCEPT ![r] = "rel"] /\ active' = 0
                 [] kind = "files" -> pc' = [pc EXCEPT ![r] = "dl"] /\ active' = 0
                 [] OTHER -> AfterMapping(r)
    /\ UNCHANGED <<ctlVars, uiVars, npages, outcome, hist, stoppedMid, owed, quota, fsVars, pureVars>>

\* a file download of a `files` property returns or throws: the throw is caught per file
DownloadReturn(r) ==
    /\ active = 0
    /\ pc[r] = "dl"
    /\ AfterMapping(r)
    /\ UNCHANGED <<ctlVars, uiVars, npages, idx, title, outcome, hist, stoppedMid,
                   owed, quota, fsVars, pureVars>>

\* the page lookup of a `relation` property returns, or throws out of createMarkdownFiles
RelationReturn(r, ok) ==
    /\ active = 0
    /\ pc[r] = "rel"
    /\ IF ok
       THEN AfterMapping(r) /\ UNCHANGED <<ctlVars, uiVars, outcome>>
       ELSE Throw(r)
    /\ UNCHANGED <<npages, idx, title, hist, stoppedMid, owed, quota, fsVars, pureVars>>

\* extractContentFromPage returns or throws (try/catch around the call)
ExtractReturn(r) ==
    /\ active = 0
    /\ pc[r] = "extract"
    /\ pc' = [pc EXCEPT ![r] = "write"]
    /\ active' = r
    /\ UNCHANGED <<ctlVars, uiVars, npages, idx, title, outcome, hist, stoppedMid,
                   owed, quota, fsVars, pureVars>>

\* a push that is not guarded by forceStop
WriteAlways == TRUE

\* if (!importControl.forceStop) promises.push(writeFilePromise(...))
WriteAllowed == ~importControl.forceStop

\* end of a record: enqueue its document write unless forceStop
WriteStep(r) ==
    /\ active = r
    /\ pc[r] = "write"
    /\ IF WriteAllowed
       THEN /\ wst' = [wst EXCEPT ![r][idx[r]] = "pending"]
            /\ wpath' = [wpath EXCEPT ![r][idx[r]] = uniqueFileName(title[r], files)]
       ELSE UNCHANGED <<wst, wpath>>
    /\ pc' = [pc EXCEPT ![r] = "loop"]
    /\ title' = [title EXCEPT ![r] = NoName]
    /\ UNCHANGED <<ctlVars, uiVars, active, npages, idx, outcome, hist,
                   stoppedMid, owed, quota, orphans, files, pureVars>>

PendingPaths(r) == {wpath[r][i] : i \in {j \in Recs : wst[r][j] = "pending"}}
Enqueued(r) == {i \in Recs : wst[r][i] # "none"}
AnyRejected(r) == \E i \in Recs : wst[r][i] = "failed"
AllResolved(r) == \A i \in Enqueued(r) : wst[r][i] = "resolved"

\* a completion that does not await the promises
NotAwaited(r) == TRUE

\* Promise.all(promises) has settled
AllSettled(r) == AnyRejected(r) \/ AllResolved(r)

\* after `await Promise.all(promises)`: throw on a rejection, else signal completion
\* (hist.auto: "Migration completed automatically!" was logged, the flag flipped)
Completion(r) ==
    IF AnyRejected(r)
    THEN Throw(r) /\ UNCHANGED hist
    ELSE /\ hist' = [hist EXCEPT ![r].auto = importControl.isImporting]
         /\ ReturnToHandler(r, FALSE)

\* after the loop: if (isImporting && !forceStop) await Promise.all(promises)
AfterLoop(r) ==
    /\ active = r
    /\ pc[r] = "after"
    /\ IF importControl.isImporting /\ ~importControl.forceStop
       THEN IF AllSettled(r)
            THEN Completion(r)
            ELSE /\ pc' = [pc EXCEPT ![r] = "await"]
                 /\ active' = 0
                 /\ UNCHANGED <<ctlVars, uiVars, outcome, hist>>
       ELSE ReturnToHandler(r, importControl.isImporting) /\ UNCHANGED hist
    /\ UNCHANGED <<npages, idx, title, stoppedMid, owed, quota, fsVars, pureVars>>

\* Promise.all settles while the run is suspended on it
AwaitReturn(r) ==
    /\ active = 0
    /\ pc[r] = "await"
    /\ AllSettled(r)
    /\ Completion(r)
    /\ UNCHANGED <<npages, idx, title, stoppedMid, owed, quota, fsVars, pureVars>>

\* writes that would be cancelled when their handler ends
NoneOutstanding(r) == {}

\* the fs.writeFile calls of run r still in the thread pool: writeFilePromise
\* starts them when it is called, whether or not the promise is ever awaited
Outstanding(r) == PendingPaths(r)

\* the saveSettings of finally returns (or throws): the handler is over, its locals
\* are dropped; the writes it issued stay in the thread pool
FinalSaveReturn(r) ==
    /\ active = r
    /\ pc[r] = "finalSave"
    /\ active' = 0
    /\ pc' = [pc EXCEPT ![r] = "done"]
    /\ npages' = [npages EXCEPT ![r] = 0]
    /\ idx' = [idx EXCEPT ![r] = 0]
    /\ outcome' = [outcome EXCEPT ![r] = "none"]
    /\ hist' = [hist EXCEPT ![r] = NoHist]
    /\ stoppedMid' = stoppedMid \ {r}
    /\ UNCHANGED owed
    /\ orphans' = orphans \cup Outstanding(r)
    /\ wst' = [wst EXCEPT ![r] = [i \in Recs |-> "none"]]
    /\ wpath' = [wpath EXCEPT ![r] = [i \in Recs |-> NoName]]
    /\ UNCHANGED <<ctlVars, uiVars, title, quota, files, pureVars>>

\* ------------------------------------------------------------- Stop, display
\* what the Stop handler writes to importControl
StopFlags(ic) == [isImporting |-> FALSE, forceStop |-> TRUE]

\* click on Stop: the whole handler (its saveSettings returns at once)
ClickStop ==
    /\ active = 0
    /\ ~stopDisabled
    /\ settings' = [settings EXCEPT !.isImporting = FALSE]
    /\ importControl' = StopFlags(importControl)
    /\ stoppedMid' = IF importControl.forceStop THEN stoppedMid
                     ELSE {r \in Runs : pc[r] \in InCreateMarkdownFiles}
    /\ owed' = IF importControl.forceStop THEN owed
               ELSE UNION {PendingPaths(r) : r \in stoppedMid'}
    /\ stopDisabled' = TRUE
    /\ UNCHANGED <<startDisabled, attached, active, pc, npages, idx,
                   title, outcome, hist, quota, fsVars, pureVars>>

\* display(): new buttons, set from settings.isImporting and importControl.isImporting
Display ==
    /\ active = 0
    /\ startDisabled' = settings.isImporting
    /\ stopDisabled' = ~importControl.isImporting
    /\ attached' = [r \in Runs |-> FALSE]
    /\ <<startDisabled', stopDisabled', attached'>> # uiVars
    /\ UNCHANGED <<ctlVars, runVars, fsVars, pureVars>>

\* ------------------------------------------------------------- fs.writeFile
\* may the thread pool carry out a write that was issued?
WriteProceeds(r, i) == wst[r][i] = "pending"

\* fs.writeFile succeeds: the file is created (or overwritten) and the callback
\* without err resolves the promise.  The thread pool works beside the event loop,
\* so the file may appear while a run executes.
WriteDone(r, i) ==
    /\ WriteProceeds(r, i)
    /\ wst' = [wst EXCEPT ![r][i] = "resolved"]
    /\ files' = files \cup {wpath[r][i]}
    /\ UNCHANGED <<ctlVars, uiVars, runVars, wpath, orphans, pureVars>>

\* the same for a write whose handler is over
OrphanDone(p) ==
    /\ p \in orphans
    /\ orphans' = orphans \ {p}
    /\ files' = files \cup {p}
    /\ UNCHANGED <<ctlVars, uiVars, runVars, wst, wpath, pureVars>>

\* fs.writeFile fails: the callback with err rejects the promise
WriteError(r, i) ==
    /\ wst[r][i] = "pending"
    /\ wst' = [wst EXCEPT ![r][i] = "failed"]
    /\ UNCHANGED <<ctlVars, uiVars, runVars, wpath, orphans, files, pureVars>>

\* the same for a write whose handler is over
OrphanError(p) ==
    /\ p \in orphans
    /\ orphans' = orphans \ {p}
    /\ UNCHANGED <<ctlVars, uiVars, runVars, wst, wpath, files, pureVars>>

\* ------------------------------------------------------------- specification
RecordKinds == {"none", "files", "relation"}

RunStep(r) ==
    \/ \E ok \in BOOLEAN : SaveReturn(r, ok)
    \/ DbNameReturn(r)
    \/ \E ok \in BOOLEAN, n \in 0..MaxRecords : FetchReturn(r, ok, n)
    \/ \E t \in Titles, kind \in RecordKinds : LoopStep(r, t, kind)
    \/ DownloadReturn(r)
    \/ \E ok \in BOOLEAN : RelationReturn(r, ok)
    \/ ExtractReturn(r)
    \/ WriteStep(r)
    \/ AfterLoop(r)
    \/ AwaitReturn(r)
    \/ FinalSaveReturn(r)

NextOk ==
    \/ \E r \in Runs, folderExists \in BOOLEAN : ClickStart(r, folderExists)
    \/ ClickStop
    \/ Display
    \/ \E r \in Runs : RunStep(r)
    \/ \E r \in Runs, i \in Recs : WriteDone(r, i)
    \/ \E p \in orphans : OrphanDone(p)

Next ==
    \/ NextOk
    \/ \E r \in Runs, i \in Recs : WriteError(r, i)
    \/ \E p \in orphans : OrphanError(p)

Spec == Init /\ [][Next]_vars

\* The event loop runs every ready task and every awaited call returns or fails;
\* nothing obliges the user to click.
Fairness ==
    /\ \A r \in Runs : WF_vars(RunStep(r))
    /\ \A r \in Runs, i \in Recs : WF_vars(WriteDone(r, i) \/ WriteError(r, i))
    /\ WF_vars(\E p \in orphans : OrphanDone(p) \/ OrphanError(p))

FairSpec == Init /\ [][Next]_vars /\ Fairness

\* the same, when no fs.writeFile fails
FairnessWritesOk ==
    /\ \A r \in Runs : WF_vars(RunStep(r))
    /\ \A r \in Runs, i \in Recs : WF_vars(WriteDone(r, i))
    /\ WF_vars(\E p \in orphans : OrphanDone(p))

FairSpecWritesOk == Init /\ [][NextOk]_vars /\ FairnessWritesOk

\* ------------------------------------------------------------- the naming functions
\* Inputs of sanitizeTitle: a head of up to two characters, allowed or not, and
\* a run of one allowed character whose length is around the 200 limit.
HeadChars == {"a", "Z", "7", "-", " ", "_", "/", "("}
Heads == {<<>>} \cup {<<c>> : c \in HeadChars}
             \cup {<<c, d>> : c \in HeadChars, d \in HeadChars}
FillLens == {0, MaxTitleLen - 1, MaxTitleLen, MaxTitleLen + 1}
Fill(n) == [i \in 1..n |-> "x"]
SanitizeInputs == {h \o Fill(n) : h \in Heads, n \in FillLens}

\* Inputs of generateUniqueTitle: a title and a folder holding some of the names
\* title, title (1), ..., title (MaxCounter), and perhaps another document.
TheTitle == MkName("Title", 0)
Family == {TheTitle} \cup {WithCounter(TheTitle, n) : n \in 1..MaxCounter}
Folders == {d \cup o : d \in SUBSET Family, o \in {{}, {MkName("Other", 0)}}}

NamingInit ==
    /\ MainInit
    /\ fcase \in [op : {"sanitize"}, str : SanitizeInputs]
                 \cup [op : {"generate"}, title : {TheTitle}, dir : Folders]
    /\ fout = NoOut
    /\ XIdle
    /\ MIdle
    /\ AIdle
    /\ TConstructed

\* sanitizeTitle(title)
ApplySanitize ==
    /\ fcase.op = "sanitize"
    /\ fout = NoOut
    /\ fout' = <<"once", sanitizeTitle(fcase.str)>>
    /\ UNCHANGED <<ctlVars, uiVars, runVars, fsVars, fcase, xVars, mVars, aVars, tVars>>

\* sanitizeTitle applied to its own result
SanitizeAgain ==
    /\ fout[1] = "once"
    /\ fout' = <<"twice", fout[2], sanitizeTitle(fout[2])>>
    /\ UNCHANGED <<ctlVars, uiVars, runVars, fsVars, fcase, xVars, mVars, aVars, tVars>>

\* generateUniqueTitle(title, folderPath)
ApplyGenerate ==
    /\ fcase.op = "generate"
    /\ fout = NoOut
    /\ fout' = <<"name", generateUniqueTitle(fcase.title, fcase.dir)>>
    /\ UNCHANGED <<ctlVars, uiVars, runVars, fsVars, fcase, xVars, mVars, aVars, tVars>>

NamingNext == ApplySanitize \/ SanitizeAgain \/ ApplyGenerate

NamingSpec == NamingInit /\ [][NamingNext]_vars

\* ------------------------------------------------------------- the block renderer
\* One call of extractContentFromPage for a record, with the calls of
\* fetchBlockContent and of extractContentFromPage (child pages) nested in it.
\* The block lists are what the upstream requests return; every block carries
\* text and every file block is hosted (it is downloaded). The block types
\* drawn are one of each way through the switch that the numbering and the
\* downloads depend on: bulleted_list_item goes the way of paragraph, image and
\* audio the way of file.
MaxBlocks == 2        \* blocks in one list returned by the upstream
MaxNesting == 1       \* lists below the record's own list (children, child pages)

LeafTypes == {"paragraph", "numbered_list_item", "file"}
Blocks(lvl) ==
    [type : LeafTypes, kids : {FALSE}]
        \cup (IF lvl < MaxNesting
              THEN [type : {"numbered_list_item", "child_page"}, kids : BOOLEAN]
              ELSE {})
BlockLists(lvl) == UNION {[1..k -> Blocks(lvl)] : k \in 0..MaxBlocks}

\* a line of rendered text: k its kind, n the number it shows (list number or
\* file counter), lvl the nesting of the block it comes from
Line(k, n, lvl) == [k |-> k, n |-> n, lvl |-> lvl]

\* the locals of a call of extractContentFromPage: ph "req" awaiting the page's
\* blocks, "fbc" in fetchBlockContent, "tail" after it, "all" awaiting
\* Promise.all(promises), "ret" returning; np: promises pushed so far
EcpFrame(page, lvl) ==
    [fn |-> "ecp", ph |-> "req", blocks |-> <<>>, i |-> 0, prev |-> "null", num |-> 1,
     fc |-> 1, content |-> <<>>, page |-> page, lvl |-> lvl, np |-> 0]

\* the locals of a call of fetchBlockContent: ph "top" at the head of the loop,
\* "dl" awaiting a download, "page" in a child page's extractContentFromPage,
\* "tail" after the switch, "kids" awaiting the children, "sub" in the call on
\* the children, "ret" returning
FbcFrame(blocks, prev, num, fc, page, lvl) ==
    [fn |-> "fbc", ph |-> "top", blocks |-> blocks, i |-> 1, prev |-> prev, num |-> num,
     fc |-> fc, content |-> <<>>, page |-> page, lvl |-> lvl, np |-> 0]

Top(stack) == stack[Len(stack)]
SetTop(stack, f) == [stack EXCEPT ![Len(stack)] = f]

\* createMarkdownFiles has called extractContentFromPage for its first record:
\* run 1 of Spec at pc "extract", the request for the page's blocks under way
ExtractInit ==
    /\ importControl = [isImporting |-> TRUE, forceStop |-> FALSE]
    /\ settings = [attachPageId |-> FALSE, importPageContent |-> TRUE, isImporting |-> TRUE]
    /\ startDisabled = TRUE
    /\ stopDisabled = FALSE
    /\ attached = [r \in Runs |-> r = 1]
    /\ active = 0
    /\ pc = [r \in Runs |-> IF r = 1 THEN "extract" ELSE "idle"]
    /\ npages = [r \in Runs |-> IF r = 1 THEN 1 ELSE 0]
    /\ idx = [r \in Runs |-> IF r = 1 THEN 1 ELSE 0]
    /\ title = [r \in Runs |-> IF r = 1 THEN MkName("Alpha", 0) ELSE NoName]
    /\ outcome = [r \in Runs |-> "none"]
    /\ hist = [r \in Runs |-> IF r = 1 THEN [NoHist EXCEPT !.marked = TRUE, !.fetched = TRUE]
                                ELSE NoHist]
    /\ stoppedMid = {}
    /\ owed = {}
    /\ wst = [r \in Runs |-> [i \in Recs |-> "none"]]
    /\ wpath = [r \in Runs |-> [i \in Recs |-> NoName]]
    /\ orphans = {}
    /\ files = {}
    /\ quota = MaxRecords - 1
    /\ fcase = NoCase
    /\ fout = NoOut
    /\ xstack = <<EcpFrame("Alpha", 0)>>
    /\ xres = NoRes
    /\ xwrites = <<>>
    /\ xdoc = NoDoc
    /\ xsub \in BOOLEAN
    /\ MIdle
    /\ AIdle
    /\ TConstructed

\* what a step of the renderer leaves alone
XOthers ==
    UNCHANGED <<ctlVars, uiVars, pc, npages, idx, title, outcome, hist, stoppedMid,
                owed, quota, fsVars, fcase, fout, xsub, mVars, aVars, tVars>>

\* the text rendered so far for the record's own body: the content of the calls
\* of fetchBlockContent in progress for the record's page (not a child page's)
RECURSIVE Rendered(_, _)
Rendered(stack, k) ==
    IF k > Len(stack) \/ stack[k].fn = "ecp" THEN <<>>
    ELSE stack[k].content \o Rendered(stack, k + 1)

\* an exception leaves every call in progress (fetchBlockContent and
\* extractContentFromPage catch nothing) and reaches catch (error) of
\* createMarkdownFiles; xres keeps what failed and, for the record, the text
\* that had been rendered (the code drops it with the calls)
XThrow(what) ==
    /\ xstack' = <<>>
    /\ xres' = [st |-> what, content |-> Rendered(xstack, 2)]
    /\ active' = 1
    /\ UNCHANGED <<xwrites, xdoc>>

\* the request for a page's blocks returns or fails; fetchBlockContent is called
\* unless forceStop
XBlocksReturn(ok, blocks) ==
    /\ active = 0
    /\ xstack # <<>>
    /\ Top(xstack).fn = "ecp"
    /\ Top(xstack).ph = "req"
    /\ IF ok
       THEN LET f == Top(xstack)
            IN /\ blocks \in BlockLists(f.lvl)
               /\ xstack' =
                     IF importControl.forceStop
                     THEN SetTop(xstack, [f EXCEPT !.ph = "ret"])
                     ELSE Append(SetTop(xstack, [f EXCEPT !.ph = "fbc"]),
                                 FbcFrame(blocks, "null", 1, 1, f.page, f.lvl))
               /\ active' = 1
               /\ UNCHANGED <<xres, xwrites, xdoc>>
       ELSE XThrow("fetch failed")
    /\ XOthers

\* if (previousBlockType === "numbered_list_item" && block.type !== ...) numberCounter = 1
ResetCounter(prev, type, num) ==
    IF prev = "numbered_list_item" /\ type # "numbered_list_item" THEN 1 ELSE num

\* a renderer that never sees the flag set
ForceStopUnread == FALSE

\* if (importControl && importControl.forceStop) return content; at the head of
\* the loop and in the cases that go to the network
ForceStopSeen == importControl.forceStop

\* the head of the loop of fetchBlockContent and the switch on block.type, up to
\* its first await
XBlock ==
    /\ active = 1
    /\ xstack # <<>>
    /\ Top(xstack).fn = "fbc"
    /\ Top(xstack).ph = "top"
    /\ LET f == Top(xstack)
       IN IF f.i > Len(f.blocks) \/ ForceStopSeen
          THEN xstack' = SetTop(xstack, [f EXCEPT !.ph = "ret"]) /\ UNCHANGED active
          ELSE LET b == f.blocks[f.i]
                   n == ResetCounter(f.prev, b.type, f.num)
               IN CASE b.type = "paragraph" ->
                         /\ xstack' = SetTop(xstack, [f EXCEPT !.num = n, !.ph = "tail",
                                           !.content = Append(@, Line("par", 0, f.lvl))])
                         /\ UNCHANGED active
                    [] b.type = "bulleted_list_item" ->
                         /\ xstack' = SetTop(xstack, [f EXCEPT !.num = n, !.ph = "tail",
                                           !.content = Append(@, Line("bul", 0, f.lvl))])
                         /\ UNCHANGED active
                    [] b.type = "numbered_list_item" ->
                         /\ xstack' = SetTop(xstack, [f EXCEPT !.num = n + 1, !.ph = "tail",
                                           !.content = Append(@, Line("num", n, f.lvl))])
                         /\ UNCHANGED active
                    [] b.type \in {"image", "file"} ->
                         /\ xstack' = SetTop(xstack, [f EXCEPT !.num = n, !.ph = "dl"])
                         /\ active' = 0
                    [] b.type = "child_page" ->
                         IF xsub
                         THEN /\ xstack' = Append(SetTop(xstack, [f EXCEPT !.num = n,
                                                                          !.ph = "page"]),
                                                  EcpFrame("Child", f.lvl + 1))
                              /\ active' = 0
                         ELSE /\ xstack' = SetTop(xstack, [f EXCEPT !.num = n, !.ph = "tail",
                                                !.content = Append(@, Line("ext", 0, f.lvl))])
                              /\ UNCHANGED active
    /\ UNCHANGED <<xres, xwrites, xdoc>>
    /\ XOthers

\* a download of an image or file block returns or fails
XDownloadReturn(ok) ==
    /\ active = 0
    /\ xstack # <<>>
    /\ Top(xstack).ph = "dl"
    /\ IF ok
       THEN LET f == Top(xstack)
                b == f.blocks[f.i]
            IN /\ xstack' = SetTop(xstack,
                      IF b.type = "image"
                      THEN [f EXCEPT !.ph = "tail",
                                     !.content = Append(@, Line("img", 0, f.lvl))]
                      ELSE [f EXCEPT !.ph = "tail", !.fc = @ + 1,
                                     !.content = Append(@, Line("file", f.fc, f.lvl))])
               /\ active' = 1
               /\ UNCHANGED <<xres, xwrites, xdoc>>
       ELSE XThrow("download failed")
    /\ XOthers

\* after the switch: previousBlockType = block.type; if (block.has_children) the
\* children are requested unless forceStop
XAfterSwitch ==
    /\ active = 1
    /\ xstack # <<>>
    /\ Top(xstack).fn = "fbc"
    /\ Top(xstack).ph = "tail"
    /\ LET f == Top(xstack)
           b == f.blocks[f.i]
           g == [f EXCEPT !.prev = b.type]
       IN IF ~b.kids
          THEN xstack' = SetTop(xstack, [g EXCEPT !.i = @ + 1, !.ph = "top"])
               /\ UNCHANGED active
          ELSE IF importControl.forceStop
               THEN xstack' = SetTop(xstack, [g EXCEPT !.ph = "ret"]) /\ UNCHANGED active
               ELSE xstack' = SetTop(xstack, [g EXCEPT !.ph = "kids"]) /\ active' = 0
    /\ UNCHANGED <<xres, xwrites, xdoc>>
    /\ XOthers

\* the request for a block's children returns or fails; fetchBlockContent is
\* called on them with the caller's previousBlockType, numberCounter, fileCounter
XKidsReturn(ok, blocks) ==
    /\ active = 0
    /\ xstack # <<>>
    /\ Top(xstack).ph = "kids"
    /\ IF ok
       THEN LET f == Top(xstack)
            IN /\ blocks \in BlockLists(f.lvl + 1)
               /\ xstack' =
                     IF importControl.forceStop
                     THEN SetTop(xstack, [f EXCEPT !.ph = "ret"])
                     ELSE Append(SetTop(xstack, [f EXCEPT !.ph = "sub"]),
                                 FbcFrame(blocks, f.prev, f.num, f.fc, f.page, f.lvl + 1))
               /\ active' = 1
               /\ UNCHANGED <<xres, xwrites, xdoc>>
       ELSE XThrow("fetch failed")
    /\ XOthers

\* the innermost call of extractContentFromPage below position k of the stack:
\* the owner of the promises array that fetchBlockContent was given
Owner(stack, k) ==
    CHOOSE j \in 1..k :
        /\ stack[j].fn = "ecp"
        /\ \A m \in (j + 1)..k : stack[m].fn # "ecp"

\* safeAddWritePromise(promises, subpagePath, childContent): the write of the
\* subpage is begun and its promise pushed; stopped records forceStop then
SubpageWrite(page, body, stopped) == [page |-> page, body |-> body, stopped |-> stopped]

\* a call returns its content to its caller, which goes on to its next await
XReturn ==
    /\ active = 1
    /\ xstack # <<>>
    /\ Top(xstack).ph = "ret"
    /\ LET f == Top(xstack)
           n == Len(xstack)
           rest == SubSeq(xstack, 1, n - 1)
       IN IF n = 1
          THEN /\ xstack' = <<>>
               /\ xres' = [st |-> "returned", content |-> f.content]
               /\ UNCHANGED xwrites
          ELSE LET c == xstack[n - 1]
               IN CASE c.ph = "fbc" ->
                         /\ xstack' = SetTop(rest, [c EXCEPT !.content = f.content,
                                                             !.ph = "tail"])
                         /\ UNCHANGED <<xres, xwrites>>
                    [] c.ph = "sub" ->
                         /\ xstack' = SetTop(rest, [c EXCEPT !.content = @ \o f.content,
                                                             !.i = @ + 1, !.ph = "top"])
                         /\ UNCHANGED <<xres, xwrites>>
                    [] c.ph = "page" ->
                         LET o == Owner(rest, n - 1)
                             linked == [c EXCEPT !.ph = "tail",
                                           !.content = Append(@, Line("link", 0, c.lvl))]
                             pushed == [SetTop(rest, linked) EXCEPT ![o].np = @ + 1]
                         IN /\ xstack' = pushed
                            /\ xwrites' = Append(xwrites,
                                   SubpageWrite(f.page, f.content, importControl.forceStop))
                            /\ UNCHANGED xres
    /\ UNCHANGED <<active, xdoc>>
    /\ XOthers

\* extractContentFromPage after fetchBlockContent: return at once under
\* forceStop, otherwise await Promise.all(promises.filter(Boolean))
XEcpTail ==
    /\ active = 1
    /\ xstack # <<>>
    /\ Top(xstack).fn = "ecp"
    /\ Top(xstack).ph = "tail"
    /\ LET f == Top(xstack)
       IN IF importControl.forceStop \/ f.np = 0
          THEN xstack' = SetTop(xstack, [f EXCEPT !.ph = "ret"]) /\ UNCHANGED active
          ELSE xstack' = SetTop(xstack, [f EXCEPT !.ph = "all"]) /\ active' = 0
    /\ UNCHANGED <<xres, xwrites, xdoc>>
    /\ XOthers

\* the subpage writes of a call have all resolved, or one has rejected
XAllReturn(ok) ==
    /\ active = 0
    /\ xstack # <<>>
    /\ Top(xstack).ph = "all"
    /\ IF ok
       THEN /\ xstack' = SetTop(xstack, [Top(xstack) EXCEPT !.ph = "ret"])
            /\ active' = 1
            /\ UNCHANGED <<xres, xwrites, xdoc>>
       ELSE XThrow("write failed")
    /\ XOthers

\* createMarkdownFiles after the try around extractContentFromPage: .then adds
\* the result to content, catch logs; the record's write is pushed unless forceStop
DocBody(res) == IF res.st = "returned" THEN res.content ELSE <<>>
XWriteDoc ==
    /\ active = 1
    /\ xstack = <<>>
    /\ xres # NoRes
    /\ xdoc = NoDoc
    /\ xdoc' = IF importControl.forceStop
               THEN [st |-> "skipped", body |-> <<>>]
               ELSE [st |-> "enqueued", body |-> DocBody(xres)]
    /\ active' = 0
    /\ UNCHANGED <<xstack, xres, xwrites>>
    /\ XOthers

ExtractNext ==
    \/ ClickStop
    \/ \E ok \in BOOLEAN : \E blocks \in BlockLists(0) : XBlocksReturn(ok, blocks)
    \/ XBlock
    \/ \E ok \in BOOLEAN : XDownloadReturn(ok)
    \/ XAfterSwitch
    \/ \E ok \in BOOLEAN : \E blocks \in BlockLists(1) : XKidsReturn(ok, blocks)
    \/ XReturn
    \/ XEcpTail
    \/ \E ok \in BOOLEAN : XAllReturn(ok)
    \/ XWriteDoc

ExtractSpec == ExtractInit /\ [][ExtractNext]_vars

\* ------------------------------------------------------------- the property mapper
\* The body of the records loop of createMarkdownFiles for one record, from the
\* property loop to the push of the record's write. A property is its type, the
\* number n of its entries (related pages, files) and what enabledProperties
\* holds for its name; its key is its position. The properties are drawn as the
\* loop reads them. "select" stands for the types
\* that add one line to the front matter without a request (title among them:
\* its line is `Alias: ...`); every file entry has a URL.
MaxProps == 2         \* properties of a record
MaxEntries == 2       \* entries of a relation or files property

Enabled == {"absent", "true", "false"}
Props ==
    [type : {"select"}, n : {0}, en : Enabled]
        \cup [type : {"relation", "files"}, n : 0..MaxEntries, en : Enabled]
\* a line or fragment of `content`: k its kind, key the property, j the entry
Item(k, key, j) == [k |-> k, key |-> key, j |-> j]
Delimiter == Item("---", 0, 0)
Comma == Item(",", 0, 0)

\* createMarkdownFiles stands at the property loop of its first record
MapInit ==
    /\ importControl = [isImporting |-> TRUE, forceStop |-> FALSE]
    /\ settings \in [attachPageId : {FALSE}, importPageContent : BOOLEAN, isImporting : {TRUE}]
    /\ startDisabled = TRUE
    /\ stopDisabled = FALSE
    /\ attached = [r \in Runs |-> r = 1]
    /\ active = 1
    /\ pc = [r \in Runs |-> IF r = 1 THEN "props" ELSE "idle"]
    /\ npages = [r \in Runs |-> IF r = 1 THEN 1 ELSE 0]
    /\ idx = [r \in Runs |-> IF r = 1 THEN 1 ELSE 0]
    /\ title = [r \in Runs |-> IF r = 1 THEN MkName("Alpha", 0) ELSE NoName]
    /\ outcome = [r \in Runs |-> "none"]
    /\ hist = [r \in Runs |-> IF r = 1 THEN [NoHist EXCEPT !.marked = TRUE, !.fetched = TRUE]
                                ELSE NoHist]
    /\ stoppedMid = {}
    /\ owed = {}
    /\ wst = [r \in Runs |-> [i \in Recs |-> "none"]]
    /\ wpath = [r \in Runs |-> [i \in Recs |-> NoName]]
    /\ orphans = {}
    /\ files = {}
    /\ quota = MaxRecords - 1
    /\ fcase = NoCase
    /\ fout = NoOut
    /\ XIdle
    /\ AIdle
    /\ TConstructed
    /\ mprops = <<>>
    /\ mflags \in [sem : BOOLEAN, rel : BOOLEAN]
    /\ mi = 1
    /\ mj = 0
    /\ mph = "prop"
    /\ mcontent = <<Delimiter>>
    /\ msemlinks = <<>>
    /\ mrellinks = <<>>
    /\ mlog = <<>>
    /\ mdoc = NoDoc

MOthers ==
    UNCHANGED <<npages, idx, title, hist, stoppedMid, owed, quota, fsVars, fcase, fout,
                xVars, mflags, aVars, tVars>>
MHandler == UNCHANGED <<ctlVars, uiVars, pc, outcome>>

\* a property that is skipped whatever enabledProperties holds for it but true
SkipsUnlessTrue(en) == en # "true"

\* if (enabledProperties[key] === false) continue;
IsSkipped(en) == en = "false"

\* a request of the record is made: what, for which property and entry, and how
\* it ended
Request(what, key, j, ok) == [what |-> what, key |-> key, j |-> j, ok |-> ok]

\* the n lines `  - name` of a relation written into the front matter
NameLines(key, n) == [j \in 1..n |-> Item("name", key, j)]

\* the head of the property loop and the switch on property.type, up to its
\* first await; more: page.properties holds another property, p
MProp(more, p) ==
    /\ active = 1
    /\ mph = "prop"
    /\ IF ~more
       THEN mph' = "close" /\ UNCHANGED <<active, mi, mj, mcontent, mprops>>
       ELSE /\ mi <= MaxProps
            /\ mprops' = Append(mprops, p)
            /\ CASE IsSkipped(p.en) ->
                      /\ mi' = mi + 1
                      /\ UNCHANGED <<active, mj, mph, mcontent>>
                 [] ~IsSkipped(p.en) /\ p.type = "select" ->
                      /\ mcontent' = Append(mcontent, Item("value", mi, 0))
                      /\ mi' = mi + 1
                      /\ UNCHANGED <<active, mj, mph>>
                 [] ~IsSkipped(p.en) /\ p.type = "files" ->
                      IF p.n > 0
                      THEN /\ mcontent' = Append(mcontent, Item("key", mi, 0))
                           /\ mj' = 1
                           /\ mph' = "dl"
                           /\ active' = 0
                           /\ UNCHANGED mi
                      ELSE /\ mcontent' = mcontent \o <<Item("key", mi, 0), Item("[]", mi, 0)>>
                           /\ mi' = mi + 1
                           /\ UNCHANGED <<active, mj, mph>>
                 [] ~IsSkipped(p.en) /\ p.type = "relation" ->
                      IF p.n > 0
                      THEN /\ mj' = 1
                           /\ mph' = "lookup"
                           /\ active' = 0
                           /\ UNCHANGED <<mi, mcontent>>
                      ELSE /\ mcontent' = Append(mcontent, Item("empty", mi, 0))
                           /\ mi' = mi + 1
                           /\ UNCHANGED <<active, mj, mph>>
    /\ UNCHANGED <<msemlinks, mrellinks, mlog, mdoc>>
    /\ MHandler
    /\ MOthers

\* an exception reaches catch (error) of the Start handler
MThrow ==
    /\ mph' = "threw"
    /\ Throw(1)

\* a download that throws past the loop over the files
DownloadUncaught == FALSE

\* try { ... await downloadFile(...) ... } catch (error) { ... } around each file
DownloadCaught == TRUE

\* the download of a file entry returns or throws; the loop goes to the next
\* entry, or the property loop to the next property
MDownloadReturn(ok) ==
    /\ active = 0
    /\ mph = "dl"
    /\ mlog' = Append(mlog, Request("download", mi, mj, ok))
    /\ IF ok \/ DownloadCaught
       THEN /\ mcontent' = Append(mcontent,
                               Item(IF ok THEN "link" ELSE "Failed", mi, mj))
            /\ IF mj < mprops[mi].n
               THEN mj' = mj + 1 /\ UNCHANGED <<mi, mph, active>>
               ELSE mi' = mi + 1 /\ mph' = "prop" /\ active' = 1 /\ UNCHANGED mj
            /\ MHandler
       ELSE MThrow /\ UNCHANGED <<mi, mj, mcontent>>
    /\ UNCHANGED <<mprops, msemlinks, mrellinks, mdoc>>
    /\ MOthers

\* a lookup whose failure is swallowed
LookupSwallowed(ok) == TRUE

\* const response = await request(...) in no try block: the loop goes on only if
\* the lookup returned
LookupReturns(ok) == ok

\* a relation written into the front matter whatever the setting
AlwaysInline(rel) == TRUE

\* if (createRelationContentPage) relationLinks.push(...) else content += ...
WritesInline(rel) == ~rel

\* the lookup of a related page returns or throws; after the last one the
\* relation is put into relationSemanticLinks, relationLinks or the front matter
MLookupReturn(ok) ==
    /\ active = 0
    /\ mph = "lookup"
    /\ mlog' = Append(mlog, Request("lookup", mi, mj, ok))
    /\ IF ~LookupReturns(ok)
       THEN MThrow /\ UNCHANGED <<mi, mj, mcontent, msemlinks, mrellinks>>
       ELSE /\ MHandler
            /\ IF mj < mprops[mi].n
               THEN /\ mj' = mj + 1
                    /\ UNCHANGED <<mi, mph, active, mcontent, msemlinks, mrellinks>>
               ELSE /\ msemlinks' = IF mflags.sem
                                    THEN Append(msemlinks, Item("semantic", mi, 0))
                                    ELSE msemlinks
                    /\ mrellinks' = IF mflags.rel
                                    THEN Append(mrellinks, Item("yaml", mi, 0))
                                    ELSE mrellinks
                    /\ mcontent' = IF WritesInline(mflags.rel)
                                   THEN Append(mcontent, Item("key", mi, 0))
                                            \o NameLines(mi, mprops[mi].n)
                                   ELSE mcontent
                    /\ mi' = mi + 1
                    /\ mph' = "prop"
                    /\ active' = 1
                    /\ UNCHANGED mj
    /\ UNCHANGED <<mprops, mdoc>>
    /\ MOthers

\* content += array: the elements of the array joined with ","
RECURSIVE Joined(_)
Joined(arr) ==
    IF Len(arr) <= 1 THEN arr
    ELSE <<arr[1], Comma>> \o Joined(Tail(arr))

\* an append of both arrays
BothFragments(sem, semlinks, rellinks) == Joined(semlinks) \o Joined(rellinks)

\* if (createSemanticLinking && relationSemanticLinks.length > 0) content +=
\* relationSemanticLinks; else if (relationLinks.length > 0) content += relationLinks
Fragments(sem, semlinks, rellinks) ==
    IF sem /\ Len(semlinks) > 0 THEN Joined(semlinks)
    ELSE IF Len(rellinks) > 0 THEN Joined(rellinks)
    ELSE <<>>

\* after the property loop: the closing delimiter, the relation fragments, and
\* the call of extractContentFromPage if importPageContent
MClose ==
    /\ active = 1
    /\ mph = "close"
    /\ mcontent' = Append(mcontent, Delimiter) \o Fragments(mflags.sem, msemlinks, mrellinks)
    /\ IF settings.importPageContent
       THEN mph' = "extract" /\ active' = 0
       ELSE mph' = "write" /\ UNCHANGED active
    /\ UNCHANGED <<mprops, mi, mj, msemlinks, mrellinks, mlog, mdoc>>
    /\ MHandler
    /\ MOthers

\* extractContentFromPage returns the body, or throws into the catch around it
\* (a request for blocks failed): .then adds the body to content only if it returned
MExtractReturn(ok) ==
    /\ active = 0
    /\ mph = "extract"
    /\ mlog' = Append(mlog, Request("blocks", 0, 0, ok))
    /\ mcontent' = IF ok THEN Append(mcontent, Item("body", 0, 0)) ELSE mcontent
    /\ mph' = "write"
    /\ active' = 1
    /\ UNCHANGED <<mprops, mi, mj, msemlinks, mrellinks, mdoc>>
    /\ MHandler
    /\ MOthers

\* if (!importControl.forceStop) promises.push(writeFilePromise(path, content))
MWrite ==
    /\ active = 1
    /\ mph = "write"
    /\ mdoc' = IF WriteAllowed
               THEN [st |-> "enqueued", body |-> mcontent]
               ELSE [st |-> "skipped", body |-> <<>>]
    /\ mph' = "done"
    /\ active' = 0
    /\ UNCHANGED <<mprops, mi, mj, mcontent, msemlinks, mrellinks, mlog>>
    /\ MHandler
    /\ MOthers

MapNext ==
    \/ ClickStop
    \/ \E more \in BOOLEAN, p \in Props : MProp(more, p)
    \/ \E ok \in BOOLEAN : MDownloadReturn(ok)
    \/ \E ok \in BOOLEAN : MLookupReturn(ok)
    \/ MClose
    \/ \E ok \in BOOLEAN : MExtractReturn(ok)
    \/ MWrite

MapSpec == MapInit /\ [][MapNext]_vars

\* ------------------------------------------------------------- pageTitle
\* The records loop of createMarkdownFiles as far as `pageTitle` goes: the
\* variable is declared before the loop, assigned in case "title" of the
\* property loop, and passed to extractContentFromPage for every record. A
\* title property is its text (empty: the title array is empty) and what
\* enabledProperties holds for its name. importPageContent is on.
ATitles == {<<>>, <<"A">>, <<"b", " ", "c">>, <<"d", "!">>}

\* .replace(/ /g, "_")
Underscored(str) == [i \in 1..Len(str) |-> IF str[i] = " " THEN "_" ELSE str[i]]

\* the class \w and the class \s, on the characters of the model
WordChar(c) == c \in Lower \cup Upper \cup Digit \cup {"_"}
SpaceChar(c) == c = " "

\* safeKey: (key) => (/[^\w\s]/.test(key) ? `"${key}"` : key)
safeKey(key) ==
    IF \E i \in 1..Len(key) : ~WordChar(key[i]) /\ ~SpaceChar(key[i])
    THEN <<"\"">> \o key \o <<"\"">>
    ELSE key

\* let pageTitle = "" stands before the records loop: a record starts from the
\* value the record before it left
CarriedPageTitle(previous) == previous

\* case "title" of the property loop: what pageTitle is after it
TitleCase(pageTitle, prop) ==
    IF IsSkipped(prop.en) \/ prop.text = <<>> THEN pageTitle
    ELSE safeKey(Underscored(prop.text))

AliasInit ==
    /\ importControl = [isImporting |-> TRUE, forceStop |-> FALSE]
    /\ settings = [attachPageId |-> FALSE, importPageContent |-> TRUE, isImporting |-> TRUE]
    /\ startDisabled = TRUE
    /\ stopDisabled = FALSE
    /\ attached = [r \in Runs |-> r = 1]
    /\ active = 1
    /\ pc = [r \in Runs |-> IF r = 1 THEN "loop" ELSE "idle"]
    /\ npages = [r \in Runs |-> IF r = 1 THEN MaxRecords ELSE 0]
    /\ idx = [r \in Runs |-> 0]
    /\ title = [r \in Runs |-> NoName]
    /\ outcome = [r \in Runs |-> "none"]
    /\ hist = [r \in Runs |-> IF r = 1 THEN [NoHist EXCEPT !.marked = TRUE, !.fetched = TRUE]
                                ELSE NoHist]
    /\ stoppedMid = {}
    /\ owed = {}
    /\ wst = [r \in Runs |-> [i \in Recs |-> "none"]]
    /\ wpath = [r \in Runs |-> [i \in Recs |-> NoName]]
    /\ orphans = {}
    /\ files = {}
    /\ quota = 0
    /\ fcase = NoCase
    /\ fout = NoOut
    /\ XIdle
    /\ MIdle
    /\ TConstructed
    /\ apageTitle = <<>>
    /\ arec = 0
    /\ atitle = NoTitle
    /\ aph = "loop"
    /\ apassed = <<>>

AOthers == UNCHANGED <<ctlVars, uiVars, runVars, fsVars, fcase, fout, xVars, mVars, tVars>>

\* the head of the records loop: the next record, with its title property
ARecord(text, en) ==
    /\ aph = "loop"
    /\ arec < MaxRecords
    /\ arec' = arec + 1
    /\ atitle' = [text |-> text, en |-> en]
    /\ apageTitle' = CarriedPageTitle(apageTitle)
    /\ aph' = "props"
    /\ UNCHANGED apassed
    /\ AOthers

\* the property loop of the record and the call of extractContentFromPage
\* with pageTitle
AProps ==
    /\ aph = "props"
    /\ apageTitle' = TitleCase(apageTitle, atitle)
    /\ apassed' = Append(apassed, [own |-> atitle, got |-> apageTitle'])
    /\ aph' = "extract"
    /\ UNCHANGED <<arec, atitle>>
    /\ AOthers

\* extractContentFromPage returns or throws; the record's write; back to the
\* head of the loop
AExtractReturn ==
    /\ aph = "extract"
    /\ aph' = "loop"
    /\ UNCHANGED <<apageTitle, arec, atitle, apassed>>
    /\ AOthers

\* allPages is exhausted
AEnd ==
    /\ aph = "loop"
    /\ aph' = "done"
    /\ UNCHANGED <<apageTitle, arec, atitle, apassed>>
    /\ AOthers

AliasNext ==
    \/ \E text \in ATitles, en \in Enabled : ARecord(text, en)
    \/ AProps
    \/ AExtractReturn
    \/ AEnd

AliasSpec == AliasInit /\ [][AliasNext]_vars

\* ------------------------------------------------------------- ImportTracker
\* The progress tracker: startTracking, addItem, markItemComplete, each with the
\* updateUI it ends with. digests is the number of digest lines the last call
\* logged; call is that call and its arguments.
MaxCount == 1         \* largest itemCount given to startTracking
MaxTotal == 2         \* cap of a kind's total
MaxProcessed == 10    \* cap of processedItems
DigestEvery == 10     \* processedItems % 10 === 0

Types == {"attachment", "subpage"}

\* the entry of itemsByType a type counts in
Kind(type) == IF type = "attachment" THEN "attachments" ELSE "subpages"

\* itemsMap.size
Size(map) == Cardinality({id \in Ids : map[id] # NoItem})

\* updateUI(): the digest lines it logs
updateUI(processed) == IF processed % DigestEvery = 0 /\ processed > 0 THEN 1 ELSE 0

TrackerInit ==
    /\ MainInit
    /\ fcase = NoCase
    /\ fout = NoOut
    /\ XIdle
    /\ MIdle
    /\ AIdle
    /\ TConstructed

TOthers == UNCHANGED <<ctlVars, uiVars, runVars, fsVars, fcase, fout, xVars, mVars, aVars>>

\* startTracking(itemCount?)
startTracking(itemCount) ==
    /\ totalItems' = itemCount
    /\ processedItems' = 0
    /\ itemsMap' = [id \in Ids |-> NoItem]
    /\ itemsByType' = [attachments |-> NoCounts, subpages |-> NoCounts]
    /\ digests' = updateUI(processedItems')
    /\ call' = [op |-> "startTracking", id |-> 0, success |-> FALSE]
    /\ TOthers

\* addItem(id, parentPage, type, subtype?)
addItem(id, type) ==
    /\ itemsByType[Kind(type)].total < MaxTotal
    /\ itemsMap' = [itemsMap EXCEPT ![id] = [status |-> "pending", type |-> type]]
    /\ itemsByType' = [itemsByType EXCEPT ![Kind(type)].total = @ + 1]
    /\ totalItems' = Size(itemsMap')
    /\ digests' = updateUI(processedItems)
    /\ call' = [op |-> "addItem", id |-> id, success |-> FALSE]
    /\ UNCHANGED processedItems
    /\ TOthers

\* a markItemComplete that counts an id it does not know
AnyItem(item) == TRUE

\* if (item)
KnownItem(item) == item # NoItem

\* markItemComplete(id, success, errorMessage?)
markItemComplete(id, success) ==
    /\ processedItems < MaxProcessed
    /\ call' = [op |-> "markItemComplete", id |-> id, success |-> success]
    /\ IF KnownItem(itemsMap[id])
       THEN /\ itemsMap' = [itemsMap EXCEPT ![id].status = IF success THEN "success" ELSE "error"]
            /\ processedItems' = processedItems + 1
            /\ itemsByType' =
                 IF itemsMap[id].type \in Types
                 THEN IF success
                      THEN [itemsByType EXCEPT ![Kind(itemsMap[id].type)].completed = @ + 1]
                      ELSE [itemsByType EXCEPT ![Kind(itemsMap[id].type)].failed = @ + 1]
                 ELSE itemsByType
            /\ digests' = updateUI(processedItems')
            /\ UNCHANGED totalItems
       ELSE /\ digests' = 0
            /\ UNCHANGED <<totalItems, processedItems, itemsByType, itemsMap>>
    /\ TOthers

TrackerNext ==
    \/ \E itemCount \in 0..MaxCount : startTracking(itemCount)
    \/ \E id \in Ids, type \in Types : addItem(id, type)
    \/ \E id \in Ids, success \in BOOLEAN : markItemComplete(id, success)

TrackerSpec == TrackerInit /\ [][TrackerNext]_vars

\* ------------------------------------------------------------- claims
\* C1: every idle -> running transition (the Start handler passing the folder
\* check and its first saveSettings) leaves importControl with isImporting = true
\* and forceStop = false, whatever ran before.
C1_StartSetsBothFlags ==
    [][\A r \in Runs :
          (pc[r] = "save" /\ pc'[r] = "dbname")
              => (importControl'.isImporting /\ ~importControl'.forceStop)]_vars

\* C2: a run that was inside createMarkdownFiles when forceStop flipped to true
\* begins no further record.
C2_NoRecordBegunAfterStop ==
    [][\A r \in stoppedMid : idx'[r] <= idx[r]]_vars

\* C3: the writes that were pending when forceStop flipped mid-run are all
\* carried out: eventually every one of their files exists, also when the run
\* that issued them has ended without awaiting them.  Checked under
\* FairSpecWritesOk: the thread pool finishes every write and none fails.
C3_EnqueuedWritesComplete ==
    (importControl.forceStop /\ owed # {}) ~> (owed \subseteq files)

\* the stopped run's handler is over and the files of its pending writes exist
C3_Witness ==
    /\ importControl.forceStop
    /\ owed # {}
    /\ owed \subseteq files
    /\ stoppedMid = {}

\* C4: once forceStop is true no record document write is enqueued any more.
C4_NoEnqueueUnderForceStop ==
    [][importControl.forceStop =>
          \A r \in Runs, i \in Recs : wst'[r][i] = "pending" => wst[r][i] = "pending"]_vars

\* a record was finished under forceStop and its write was skipped
C4_Witness ==
    \E r \in Runs :
        /\ importControl.forceStop
        /\ pc[r] = "loop"
        /\ idx[r] >= 1
        /\ wst[r][idx[r]] = "none"

\* C5: createMarkdownFiles flips isImporting to false and logs completion only
\* when the loop has consumed every record and every write it enqueued has
\* completed.
C5_CompletionAfterAllWrites ==
    \A r \in Runs :
        hist[r].auto =>
            /\ idx[r] = npages[r]
            /\ \A i \in 1..idx[r] : wst[r][i] = "resolved"

\* a run of two records completed by itself
C5_Witness ==
    \E r \in Runs : hist[r].auto /\ idx[r] = 2 /\ outcome[r] = "issues"

\* C6: every run that set out eventually reaches its teardown with
\* importControl.isImporting = false, however it ends: by completion, by Stop,
\* or by an error.  Checked under FairSpec: every awaited call returns or fails.
C6_RunEndsNotImporting ==
    \A r \in Runs :
        (pc[r] = "save") ~> (pc[r] = "finalSave" /\ ~importControl.isImporting)

\* a run ended by an error thrown while it converted its second record
C6_Witness ==
    \E r \in Runs :
        /\ pc[r] = "finalSave"
        /\ outcome[r] = "failed"
        /\ idx[r] = 2
        /\ ~importControl.isImporting

\* C7: a Start click that finds the migration folder missing issues no fetch,
\* processes no record, enqueues no write and sets neither isImporting flag.
C7_MissingFolderDoesNothing ==
    \A r \in Runs :
        hist[r].missing =>
            /\ pc[r] = "finalSave"
            /\ outcome[r] = "aborted"
            /\ ~hist[r].marked
            /\ ~hist[r].fetched
            /\ idx[r] = 0
            /\ \A i \in Recs : wst[r][i] = "none"
            /\ ~importControl.isImporting
            /\ ~settings.isImporting

\* a click that found the folder missing, at its teardown
C7_Witness ==
    \E r \in Runs : hist[r].missing /\ outcome[r] = "aborted"

\* C8: without page-id suffixing, a pending document write never targets a path
\* that exists or that another pending write of the same run targets.
C8_WritesTargetFreshPaths ==
    ~settings.attachPageId =>
        \A r \in Runs, i \in Recs :
            wst[r][i] = "pending" =>
                /\ wpath[r][i] \notin files
                /\ \A j \in Recs \ {i} :
                       wst[r][j] = "pending" => wpath[r][j] # wpath[r][i]


\* C9: generateUniqueTitle returns the title itself when the folder has no such
\* document, and otherwise the title with " (n)" for the least n >= 1 whose name
\* is free; the name it returns is never one the folder holds.
C9_LeastFreeCounter ==
    fout[1] = "name" =>
        LET t == fcase.title
            d == fcase.dir
            res == fout[2]
        IN /\ res \notin d
           /\ t \notin d => res = t
           /\ t \in d =>
                  \E n \in 1..(MaxCounter + 1) :
                      /\ res = WithCounter(t, n)
                      /\ \A m \in 1..(n - 1) : WithCounter(t, m) \in d

\* the folder holds Title, Title (1) and Title (2): the result is Title (3)
C9_Witness ==
    /\ fout[1] = "name"
    /\ fcase.dir = {TheTitle, WithCounter(TheTitle, 1), WithCounter(TheTitle, 2)}
    /\ fout[2] = WithCounter(TheTitle, 3)

\* the i-th character of str that the class [A-Za-z0-9- ] allows
Allowed == Lower \cup Upper \cup Digit \cup {"-", " "}
AllowedAt(str) == {i \in 1..Len(str) : str[i] \in Allowed}
Preceding(str, i) == Cardinality({k \in AllowedAt(str) : k <= i})

\* C10: sanitizeTitle returns at most 200 characters, all of the class
\* [A-Za-z0-9- ]: the allowed characters of its input in their order, cut after
\* the first 200; applied to its own result it changes nothing.
C10_SanitizeStripsThenTruncates ==
    /\ fout[1] \in {"once", "twice"} =>
          LET str == fcase.str
              out == fout[2]
              kept == Cardinality(AllowedAt(str))
          IN /\ Len(out) <= 200
             /\ Len(out) = IF kept < 200 THEN kept ELSE 200
             /\ \A j \in 1..Len(out) : out[j] \in Allowed
             /\ \A i \in AllowedAt(str) :
                    Preceding(str, i) <= 200 => out[Preceding(str, i)] = str[i]
    /\ fout[1] = "twice" => fout[3] = fout[2]

\* an input of more than 200 allowed characters behind a character that is not
\* allowed: the result is exactly 200 long and sanitizing it again keeps it
C10_Witness ==
    /\ fout[1] = "twice"
    /\ Len(fcase.str) > 200
    /\ \E i \in 1..2 : fcase.str[i] \notin Allowed
    /\ Len(fout[2]) = 200
    /\ fout[3] = fout[2]

\* the line before line p that comes from the block before p's block in the
\* same block sequence (0 if p's block is the first of its sequence)
PrevSibling(content, p) ==
    LET same == {q \in 1..(p - 1) :
                    /\ content[q].lvl = content[p].lvl
                    /\ \A m \in (q + 1)..(p - 1) : content[m].lvl > content[p].lvl}
    IN IF same = {} THEN 0 ELSE CHOOSE q \in same : \A m \in same : m <= q

\* the numbers restart in every block sequence (a block's children are one)
NumberedPerSequence(content) ==
    \A p \in 1..Len(content) :
        content[p].k = "num" =>
            LET q == PrevSibling(content, p)
            IN content[p].n = IF q # 0 /\ content[q].k = "num" THEN content[q].n + 1 ELSE 1

\* the numbers run through the rendering in the order the blocks are processed
NumberedInOrder(content) ==
    \A p \in 1..Len(content) :
        content[p].k = "num" =>
            content[p].n = IF p > 1 /\ content[p - 1].k = "num"
                           THEN content[p - 1].n + 1 ELSE 1

\* C11: in a rendering, a numbered_list_item is numbered 1 when it is the first
\* block or directly follows a block of another kind, and otherwise one more
\* than the preceding numbered item (whether "follows" is read within each
\* block sequence or along the whole rendering)
C11_NumberedItemsCountFromOne ==
    xres.st = "returned" =>
        NumberedPerSequence(xres.content) \/ NumberedInOrder(xres.content)

\* C16: a failed download in a file block leaves an inline marker in the body
\* and does not abort the record: the document that is written contains the
\* marker and the text rendered for the blocks before the failing one
C16_FailedBlockDownloadKeepsBody ==
    (xres.st = "download failed" /\ xdoc.st = "enqueued") =>
        /\ \E p \in 1..Len(xdoc.body) : xdoc.body[p].k = "failed"
        /\ \A q \in 1..Len(xres.content) :
              \E p \in 1..Len(xdoc.body) : xdoc.body[p] = xres.content[q]

\* C20: once forceStop is true no write is begun, neither the record's document
\* nor a subpage's
C20_NoWriteBegunUnderForceStop ==
    [][importControl.forceStop =>
          /\ xwrites' = xwrites
          /\ xdoc'.st = "enqueued" => xdoc.st = "enqueued"]_vars

\* the record's content is closed: the front matter and the fragments are in it
Closed == mph \in {"extract", "write", "done"}

\* the position of the closing delimiter of the front matter
ClosingAt(content) == CHOOSE p \in 2..Len(content) : content[p] = Delimiter

\* the positions inside the front matter, and after it
InFront(content) == 2..(ClosingAt(content) - 1)
AfterFront(content) == (ClosingAt(content) + 1)..Len(content)

\* the relation properties of the record that are processed and refer to a page
LinkedRelations ==
    {k \in 1..Len(mprops) :
        mprops[k].type = "relation" /\ mprops[k].n > 0 /\ mprops[k].en # "false"}

\* C12: at most one of the two relation fragment kinds is appended after the
\* front matter; when both arrays are non-empty it is the semantic one; under
\* semantic linking every relation that refers to a page has exactly one
\* semantic line there and there is no YAML list fragment
C12_OneFragmentKind ==
    Closed =>
        LET after == AfterFront(mcontent)
            sem == {p \in after : mcontent[p].k = "semantic"}
            yaml == {p \in after : mcontent[p].k = "yaml"}
        IN /\ sem = {} \/ yaml = {}
           /\ (msemlinks # <<>> /\ mrellinks # <<>>) => (sem # {} /\ yaml = {})
           /\ mflags.sem =>
                 /\ yaml = {}
                 /\ \A k \in LinkedRelations :
                       Cardinality({p \in sem : mcontent[p].key = k}) = 1

C12_Witness ==
    /\ mdoc.st = "enqueued"
    /\ Len(msemlinks) = 2
    /\ Len(mrellinks) = 2
    /\ \E p \in AfterFront(mdoc.body) : mdoc.body[p].k = "semantic"

\* the relation properties of the record that are processed
ProcessedRelations ==
    {k \in 1..Len(mprops) : mprops[k].type = "relation" /\ mprops[k].en # "false"}

\* the YAML list of property k is after the front matter and no line of the
\* front matter belongs to k
ListedAfterFront(k) ==
    /\ \E p \in AfterFront(mcontent) : mcontent[p] = Item("yaml", k, 0)
    /\ \A p \in InFront(mcontent) : mcontent[p].key # k

\* C13 as stated: with createSemanticLinking = false and
\* createRelationContentPage = true, every relation property processed has its
\* YAML list of wikilinks after the front matter and no key inside it
C13_RelationListedAfterFrontMatter ==
    (Closed /\ ~mflags.sem /\ mflags.rel) =>
        \A k \in ProcessedRelations : ListedAfterFront(k)

\* C13 amended: with createSemanticLinking = false and
\* createRelationContentPage = true, every relation property processed that
\* refers to at least one page has its YAML list of wikilinks after the front
\* matter and no key inside it
C13_LinkedRelationListedAfterFrontMatter ==
    (Closed /\ ~mflags.sem /\ mflags.rel) =>
        \A k \in LinkedRelations : ListedAfterFront(k)

C13_Witness ==
    /\ mdoc.st = "enqueued"
    /\ ~mflags.sem
    /\ mflags.rel
    /\ \E k \in LinkedRelations :
          \E p \in AfterFront(mdoc.body) : mdoc.body[p] = Item("yaml", k, 0)

\* what property k has put into the record: lines of content, fragments in the
\* two arrays, requests
LinesOf(k) == {p \in 1..Len(mcontent) : mcontent[p].key = k}
FragmentsOf(k) ==
    {p \in 1..Len(msemlinks) : msemlinks[p].key = k}
        \cup {p \in 1..Len(mrellinks) : mrellinks[p].key = k}
RequestsOf(k) == {p \in 1..Len(mlog) : mlog[p].key = k}

\* the property loop has gone past property k
Passed(k) == mph # "threw" /\ mi > k

\* C14: a property that enabledProperties maps to false adds no front-matter
\* key and no relation fragment and causes no lookup and no download; a
\* property that is absent from enabledProperties or mapped to true is
\* processed: once the loop is past it, its line or its fragment is there, and
\* each of its entries has been requested. (The file name is resolved from the
\* title before the property loop, which is where enabledProperties is read.)
C14_DisabledPropertyAddsNothing ==
    \A k \in 1..Len(mprops) :
        IF mprops[k].en = "false"
        THEN LinesOf(k) = {} /\ FragmentsOf(k) = {} /\ RequestsOf(k) = {}
        ELSE Passed(k) =>
                /\ LinesOf(k) \cup FragmentsOf(k) # {}
                /\ Cardinality(RequestsOf(k)) = mprops[k].n

C14_Witness ==
    /\ mdoc.st = "enqueued"
    /\ \E k \in 1..Len(mprops) : mprops[k].en = "false" /\ mprops[k].n > 0
    /\ \E k \in 1..Len(mprops) :
          mprops[k].en = "absent" /\ mprops[k].n > 0 /\ RequestsOf(k) # {}

\* the downloads of file entries that failed, as positions of mlog
FailedDownloads == {p \in 1..Len(mlog) : mlog[p].what = "download" /\ ~mlog[p].ok}

\* entry j of files property k has its line in content: the link or the failure
EntryLine(content, k, j) ==
    \E q \in 1..Len(content) : content[q] \in {Item("link", k, j), Item("Failed", k, j)}

\* C15: a failed download of a file entry is caught for that entry: its Failed
\* line is in content, the exception does not leave the record (the loop stands
\* past the entry), the other entries of the property and the properties after
\* it are processed, and unless the run is stopped the record's document is
\* enqueued with all of this in it
C15_FailedFileDownloadIsLocal ==
    \A p \in FailedDownloads :
        LET k == mlog[p].key
            j == mlog[p].j
        IN /\ \E q \in 1..Len(mcontent) : mcontent[q] = Item("Failed", k, j)
           /\ p = Len(mlog) => mph # "threw"
           /\ mi > k \/ (mi = k /\ mj > j)
           /\ Passed(k) => \A e \in 1..mprops[k].n : EntryLine(mcontent, k, e)
           /\ \A n \in (k + 1)..Len(mprops) :
                 (Passed(n) /\ mprops[n].en # "false") =>
                     LinesOf(n) \cup FragmentsOf(n) # {}
           /\ (mph = "done" /\ ~importControl.forceStop) =>
                 /\ mdoc.st = "enqueued"
                 /\ \A e \in 1..mprops[k].n : EntryLine(mdoc.body, k, e)

C15_Witness ==
    /\ mdoc.st = "enqueued"
    /\ \E p \in FailedDownloads :
          /\ mlog[p].j = 1
          /\ mlog[p].key = 1
          /\ \E q \in 1..Len(mdoc.body) : mdoc.body[q] = Item("link", 1, 2)
          /\ \E q \in 1..Len(mdoc.body) : mdoc.body[q] = Item("value", 2, 0)

\* the requests to the upstream of the kinds in `whats` that failed
FailedFetches(whats) == {p \in 1..Len(mlog) : mlog[p].what \in whats /\ ~mlog[p].ok}

\* the record was left by an exception, nothing was written for it, and the
\* handler's teardown has reset isImporting
AbortedAndTornDown ==
    /\ mph = "threw"
    /\ mdoc.st = "none"
    /\ outcome[1] = "failed"
    /\ ~importControl.isImporting
    /\ ~settings.isImporting

\* C17 as stated: a failed upstream fetch, relation lookup or block-children
\* fetch, leaves the record's processing uncaught: no document is written for
\* the record and the handler performs its teardown
C17_FailedFetchAbortsRecord ==
    FailedFetches({"lookup", "blocks"}) # {} => AbortedAndTornDown

\* C17 amended: a failed relation lookup leaves the record's processing
\* uncaught: no document is written for the record and the handler performs its
\* teardown
C17_FailedLookupAbortsRecord ==
    FailedFetches({"lookup"}) # {} => AbortedAndTornDown

C17_Witness ==
    /\ mph = "threw"
    /\ outcome[1] = "failed"
    /\ Len(mlog) = 2
    /\ mlog[1].ok
    /\ mlog[2] = Request("lookup", 1, 2, FALSE)

\* the documents of run r: the paths its writes went to
Documents(r) == {wpath[r][i] : i \in Enqueued(r)}

\* C18: while Stop has never been clicked, a run issues the writes of its
\* records one by one in list order, and when it signals completion every
\* record's write is done and there are as many documents as records
C18_OneDocumentPerRecord ==
    \A r \in Runs :
        ~importControl.forceStop =>
            /\ \E k \in {idx[r] - 1, idx[r]} : Enqueued(r) = 1..k
            /\ hist[r].auto =>
                  /\ \A i \in 1..npages[r] : wst[r][i] = "resolved"
                  /\ Cardinality(Documents(r)) = npages[r]

\* C19: createMarkdownFiles tests isImporting on entry and before each record:
\* entered with isImporting false it processes no record and enqueues no write;
\* a record is begun only if the test finds isImporting true; a run that was in
\* the loop when Stop made isImporting false begins no further record; and
\* leaving the loop leaves the enqueued writes as they are
C19_HaltedLoopConsumesNoRecord ==
    [][\A r \in Runs :
          /\ (pc[r] = "fetch" /\ pc'[r] # "fetch" /\ ~importControl.isImporting)
                => (idx'[r] = 0 /\ wst'[r] = wst[r])
          /\ idx'[r] > idx[r] => importControl.isImporting
          /\ r \in stoppedMid => idx'[r] <= idx[r]
          /\ (pc[r] = "loop" /\ pc'[r] # "loop" /\ idx'[r] = idx[r])
                => (wst'[r] = wst[r] /\ wpath'[r] = wpath[r])]_vars

\* the phases in which a call awaits the network: a download, the children of
\* a block, the blocks of a page
NetworkPhases == {"dl", "kids", "req"}

\* this step begins a request to the network
RequestBegins ==
    /\ xstack' # <<>>
    /\ Top(xstack').ph \in NetworkPhases
    /\ \/ xstack = <<>>
       \/ Len(xstack') # Len(xstack)
       \/ Top(xstack).ph \notin NetworkPhases

\* this step renders a block: the call at the head of its loop adds to its text
BlockRendered ==
    /\ xstack # <<>>
    /\ Top(xstack).ph = "top"
    /\ Len(xstack') >= Len(xstack)
    /\ xstack'[Len(xstack)].content # Top(xstack).content

\* C21: once forceStop is true the renderer begins no download, no fetch of a
\* block's children and no child-page extraction, renders no further block, and
\* a call at the head of its loop returns the text it has
C21_NoRequestBegunUnderForceStop ==
    [][importControl.forceStop =>
          /\ ~RequestBegins
          /\ ~BlockRendered
          /\ (xstack # <<>> /\ Top(xstack).ph = "top") =>
                xstack' = SetTop(xstack, [Top(xstack) EXCEPT !.ph = "ret"])]_vars

C21_Witness ==
    /\ importControl.forceStop
    /\ xstack # <<>>
    /\ Top(xstack).fn = "fbc"
    /\ Top(xstack).ph = "ret"
    /\ Top(xstack).content # <<>>
    /\ Top(xstack).i <= Len(Top(xstack).blocks)
    /\ Top(xstack).blocks[Top(xstack).i].type = "file"

\* call k of the stack stands at a child_page block
AtChildPage(k) ==
    /\ xstack[k].fn = "fbc"
    /\ xstack[k].i <= Len(xstack[k].blocks)
    /\ xstack[k].blocks[xstack[k].i].type = "child_page"

\* C22: with importSubpages off, a child_page block leads to no fetch of the
\* child page's blocks, neither by extractContentFromPage nor as the children of
\* the block, and to no subpage write
C22_NoFetchForChildPageWhenDisabled ==
    ~xsub =>
        /\ xwrites = <<>>
        /\ \A k \in 1..Len(xstack) :
              AtChildPage(k) => xstack[k].ph \notin {"page", "kids", "sub"}

\* the lines of a rendering that come from downloaded file blocks; line.n is
\* the counter of <pageName>_<counter>
FileLines(content) == {p \in 1..Len(content) : content[p].k = "file"}

\* C23: the file attachments downloaded for one page have distinct counters,
\* those of nested blocks and of the blocks after them included
C23_AttachmentCountersDistinct ==
    xres.st = "returned" =>
        \A p, q \in FileLines(xres.content) :
            p # q => xres.content[p].n # xres.content[q].n

\* the alias of a title property of its own: its text with "_" for " ", quoted
\* by safeKey, and nothing if the text is empty
OwnAlias(prop) == IF prop.text = <<>> THEN <<>> ELSE safeKey(Underscored(prop.text))

\* C24: the pageTitle given to extractContentFromPage for a record is the alias
\* of the record's own title property (or empty, when the title is empty or the
\* property disabled), never what an earlier record left
C24_PageTitleIsTheRecordsOwn ==
    \A k \in 1..Len(apassed) :
        apassed[k].got \in {OwnAlias(apassed[k].own), <<>>}


\* C25: markItemComplete(id, success) on a registered item sets that item's
\* status to success or error and adds one to processedItems and to exactly one
\* counter (completed or failed) of the item's own kind, leaving the other
\* kind's counters, the totals and all other items as they were; on an id that
\* was never added it changes no tracker state.
C25_MarkItemCompleteEffect ==
    [][call'.op = "markItemComplete" =>
          LET id == call'.id
              success == call'.success
              item == itemsMap[id]
          IN  IF item # NoItem
              THEN /\ itemsMap' = [itemsMap EXCEPT
                                     ![id] = [status |-> IF success THEN "success" ELSE "error",
                                              type |-> item.type]]
                   /\ processedItems' = processedItems + 1
                   /\ itemsByType' =
                        [itemsByType EXCEPT
                           ![Kind(item.type)] =
                              IF success THEN [@ EXCEPT !.completed = @ + 1]
                              ELSE [@ EXCEPT !.failed = @ + 1]]
                   /\ totalItems' = totalItems
              ELSE UNCHANGED <<totalItems, processedItems, itemsByType, itemsMap>>]_vars

\* a subpage was marked failed while an attachment is registered and pending
C25_Witness ==
    /\ call.op = "markItemComplete"
    /\ ~call.success
    /\ itemsMap[call.id] = [status |-> "error", type |-> "subpage"]
    /\ \E other \in Ids \ {call.id} : itemsMap[other] = [status |-> "pending", type |-> "attachment"]
    /\ itemsByType.subpages.failed = 1
    /\ itemsByType.attachments.completed + itemsByType.attachments.failed = 0
    /\ processedItems = 1

\* C26: over addItem and markItemComplete calls, a call logs exactly one digest
\* line when it brings processedItems to a positive multiple of 10, and no call
\* logs one at any other time.
C26_DigestOncePerTenProcessed ==
    [][call'.op \in {"addItem", "markItemComplete"} =>
          digests' = IF /\ processedItems' # processedItems
                        /\ processedItems' % DigestEvery = 0
                        /\ processedItems' > 0
                     THEN 1 ELSE 0]_vars

\* C30: the tracker's counts are consistent after any calls of startTracking,
\* addItem and markItemComplete: processedItems <= totalItems; for each kind
\* completed + failed <= total; processedItems is the sum of completed and failed
\* over both kinds; totalItems is attachments.total + subpages.total.
C30_CountsConsistent ==
    /\ processedItems <= totalItems
    /\ \A k \in {"attachments", "subpages"} :
          itemsByType[k].completed + itemsByType[k].failed <= itemsByType[k].total
    /\ processedItems = itemsByType.attachments.completed + itemsByType.attachments.failed
                        + itemsByType.subpages.completed + itemsByType.subpages.failed
    /\ totalItems = itemsByType.attachments.total + itemsByType.subpages.total


\* the status the handler logged is one of the three it chooses from after
\* createMarkdownFiles returned
Reported(r) == outcome[r] \in {"completed", "stopped", "issues"}

\* every fetched record of run r was processed, its document write was enqueued
\* and awaited, and the completion was signalled
NaturallyCompleted(r) ==
    /\ hist[r].auto
    /\ idx[r] = npages[r]
    /\ \A i \in 1..npages[r] : wst[r][i] = "resolved"

\* C27: the status the run handler reports matches the run's outcome: it is
\* "Migration completed!" if and only if every fetched record was processed and
\* its document write enqueued and awaited; a naturally completed run is never
\* reported as ended with issues, a run that skipped writes never as completed.
C27_ReportMatchesOutcome ==
    \A r \in Runs :
        Reported(r) => (outcome[r] = "completed" <=> NaturallyCompleted(r))

\* runs whose handler has begun the import and has not reached its finally
BeforeTeardown == {r \in Runs : pc[r] \notin {"idle", "finalSave", "done"}}

\* C28: at most one import run is active at a time: no run is started while an
\* earlier run's handler has not reached its teardown, so no run's writes to
\* importControl reach another run.
C28_AtMostOneRun == Cardinality(BeforeTeardown) <= 1

\* C29: whenever display() renders the settings tab, at least one of Start and
\* Stop is enabled, and Start is enabled whenever no run is in progress.
C29_DisplayLeavesAControl ==
    [][Display =>
          /\ ~startDisabled' \/ ~stopDisabled'
          /\ BeforeTeardown = {} => ~startDisabled']_vars

====
